---- MODULE Spec2Model ----
(***************************************************************************)
(* State-machine model of omeslicer/core.py, class OMESlicer.              *)
(*                                                                         *)
(* Python object references are modelled by a heap of metadata documents:  *)
(* a descriptor's `ome` field is an index into `heap`, copy.deepcopy       *)
(* allocates a fresh index, and attribute assignment updates the heap      *)
(* cell.  None is the empty tuple, so Python truthiness of the tuple and   *)
(* object valued fields is "differs from None".                            *)
(***************************************************************************)
EXTENDS Integers, Sequences, FiniteSets, TLC

VARIABLES
    heap,       \* parsed OME documents (ome_types objects), by reference
    slicers,    \* the OMESlicer instances constructed so far
    out_files,  \* files written through tifffile.TiffWriter, by path
    pc,         \* position inside save(): "idle", "extract" or "write"
    frame,      \* locals of the running save() call
    ret,        \* the last call: operation, receiver, arguments, outcome
    io          \* file operations performed by the current / last call

vars == <<heap, slicers, out_files, pc, frame, ret, io>>

(***************************************************************************)
(* Bounds.                                                                 *)
(***************************************************************************)
MaxSlicers == 3
MaxPage == 1

(***************************************************************************)
(* Inputs: source files on disk and the arguments of the calls.            *)
(***************************************************************************)
SourcePaths == {"a.ome.tiff", "b.ome.tiff"}
OutputPaths == {"out.tiff"}
Xs == {0, 1}
Ys == {0, 1}
Widths == {1, 2}
Heights == {1, 2}

None == <<>>

\* a.ome.tiff: 3x2, declares two channels and holds three pages.
\* b.ome.tiff: 2x2, declares two channels but holds a single page.
FileXml(path) ==
    IF path = "a.ome.tiff"
    THEN [SizeX |-> 3, SizeY |-> 2, SizeC |-> 2, Type |-> "uint16"]
    ELSE [SizeX |-> 2, SizeY |-> 2, SizeC |-> 2, Type |-> "uint8"]

FilePageCount(path) ==
    IF path = "a.ome.tiff" THEN 3 ELSE 1

\* Sample stored at column i, row j of the given page of the file.
FileSample(path, page, i, j) ==
    (IF path = "a.ome.tiff" THEN 100 ELSE 200)
        + 20 * page + 4 * j + i

(***************************************************************************)
(* Library calls made by the class.                                        *)
(***************************************************************************)
\* ome_types.from_xml: OME-XML attributes to the Pixels object's fields.
from_xml(xml) ==
    [size_x |-> xml.SizeX, size_y |-> xml.SizeY, size_c |-> xml.SizeC, type |-> xml.Type]

\* ome_types.to_xml: the Pixels object's fields to OME-XML attributes.
to_xml(ome) ==
    [SizeX |-> ome.size_x, SizeY |-> ome.size_y, SizeC |-> ome.size_c, Type |-> ome.type]

\* Variant: a reference copy in place of copy.deepcopy.
deepcopy_Shallow(h, ref) ==
    [heap |-> h, ref |-> ref]

\* copy.deepcopy of the document at `ref`: a fresh heap cell with equal content.
deepcopy(h, ref) ==
    [heap |-> Append(h, h[ref]), ref |-> Len(h) + 1]

\* pyvips.Image.new_from_file(path, page=page): a lazy handle on one page,
\* None standing for the pyvips.Error raised for a page the file lacks.
new_from_file(path, page) ==
    IF page >= 0 /\ page < FilePageCount(path) THEN <<path, page>> ELSE None

\* Image.crop(x, y, width, height) followed by write_to_memory: the samples
\* of the area; None standing for "extract_area: bad extract area".
ImageCrop(image, x, y, width, height) ==
    LET xml == FileXml(image[1]) IN
    IF x < 0 \/ y < 0 \/ width <= 0 \/ height <= 0
         \/ x + width > xml.SizeX \/ y + height > xml.SizeY
    THEN None
    ELSE <<[height |-> height, width |-> width,
            data |-> [p \in (0 .. width - 1) \X (0 .. height - 1) |->
                        FileSample(image[1], image[2], x + p[1], y + p[2])]]>>

(***************************************************************************)
(* OMESlicer.                                                              *)
(***************************************************************************)
\* _load_ome_metadata: the OME-XML of the file's first page.
_load_ome_metadata(path) == FileXml(path)

\* __init__(ome_tiff_path=path)
InitFromPath(h, path) ==
    LET xml == _load_ome_metadata(path) IN
    [heap   |-> Append(h, from_xml(xml)),
     slicer |-> [ome_tiff_path      |-> path,
                 pyvips_image       |-> None,
                 ome_metadata       |-> xml,
                 ome                |-> Len(h) + 1,
                 crop_info          |-> None,
                 cropped_dimensions |-> None],
     io     |-> <<[ev |-> "read_metadata", page |-> 0]>>]

\* Variant: the two size fields exchanged.
_update_metadata_for_crop_Swapped(h, ome, width, height) ==
    LET c  == [heap |-> Append(h, h[ome]), ref |-> Len(h) + 1]
        h2 == [c.heap EXCEPT ![c.ref].size_x = height, ![c.ref].size_y = width]
    IN  [heap |-> h2, xml |-> to_xml(h2[c.ref])]

\* Variant: the descriptor's own document is updated, without the second copy.
_update_metadata_for_crop_InPlace(h, ome, width, height) ==
    LET h2 == [h EXCEPT ![ome].size_x = width, ![ome].size_y = height]
    IN  [heap |-> h2, xml |-> to_xml(h2[ome])]

\* _update_metadata_for_crop, on the descriptor whose document is `ome`.
_update_metadata_for_crop(h, ome, width, height) ==
    LET c  == deepcopy(h, ome)
        h2 == [c.heap EXCEPT ![c.ref].size_x = width, ![c.ref].size_y = height]
    IN  [heap |-> h2, xml |-> to_xml(h2[c.ref])]

\* Variant: the crop offset taken relative to the parent's crop region.
InitFromSlicer_RelativeOffset(h, existing_slicer, x, y, width, height) ==
    LET c == [heap |-> Append(h, h[existing_slicer.ome]), ref |-> Len(h) + 1]
        u == [heap |-> Append(c.heap, [c.heap[c.ref] EXCEPT !.size_x = width, !.size_y = height]),
              xml  |-> to_xml([c.heap[c.ref] EXCEPT !.size_x = width, !.size_y = height])]
        px == IF existing_slicer.crop_info = <<>> THEN 0 ELSE existing_slicer.crop_info[1]
        py == IF existing_slicer.crop_info = <<>> THEN 0 ELSE existing_slicer.crop_info[2]
    IN  [heap   |-> u.heap,
         slicer |-> [ome_tiff_path      |-> existing_slicer.ome_tiff_path,
                     ome                |-> c.ref,
                     crop_info          |-> <<px + x, py + y, width, height>>,
                     cropped_dimensions |-> <<width, height>>,
                     ome_metadata       |-> u.xml,
                     pyvips_image       |-> <<>>],
         io     |-> <<>>]

\* Variant: the crop region is not recorded on the derived descriptor.
InitFromSlicer_NoCropInfo(h, existing_slicer, x, y, width, height) ==
    LET c == [heap |-> Append(h, h[existing_slicer.ome]), ref |-> Len(h) + 1]
        u == [heap |-> Append(c.heap, [c.heap[c.ref] EXCEPT !.size_x = width, !.size_y = height]),
              xml  |-> to_xml([c.heap[c.ref] EXCEPT !.size_x = width, !.size_y = height])]
    IN  [heap   |-> u.heap,
         slicer |-> [ome_tiff_path      |-> existing_slicer.ome_tiff_path,
                     ome                |-> c.ref,
                     crop_info          |-> <<>>,
                     cropped_dimensions |-> <<width, height>>,
                     ome_metadata       |-> u.xml,
                     pyvips_image       |-> <<>>],
         io     |-> <<>>]

\* Variant: the derived descriptor re-reads the metadata from the file.
InitFromSlicer_Reload(h, existing_slicer, x, y, width, height) ==
    LET c == [heap |-> Append(h, from_xml(_load_ome_metadata(existing_slicer.ome_tiff_path))),
              ref  |-> Len(h) + 1]
        u == [heap |-> Append(c.heap, [c.heap[c.ref] EXCEPT !.size_x = width, !.size_y = height]),
              xml  |-> to_xml([c.heap[c.ref] EXCEPT !.size_x = width, !.size_y = height])]
    IN  [heap   |-> u.heap,
         slicer |-> [ome_tiff_path      |-> existing_slicer.ome_tiff_path,
                     ome                |-> c.ref,
                     crop_info          |-> <<x, y, width, height>>,
                     cropped_dimensions |-> <<width, height>>,
                     ome_metadata       |-> u.xml,
                     pyvips_image       |-> <<>>],
         io     |-> <<[ev |-> "read_metadata", page |-> 0]>>]

\* __init__(existing_slicer=..., x, y, width, height)
InitFromSlicer(h, existing_slicer, x, y, width, height) ==
    LET c == deepcopy(h, existing_slicer.ome)
        u == _update_metadata_for_crop(c.heap, c.ref, width, height)
    IN  [heap   |-> u.heap,
         slicer |-> [ome_tiff_path      |-> existing_slicer.ome_tiff_path,
                     ome                |-> c.ref,
                     crop_info          |-> <<x, y, width, height>>,
                     cropped_dimensions |-> <<width, height>>,
                     ome_metadata       |-> u.xml,
                     pyvips_image       |-> None],
         io     |-> <<>>]

\* Variant: the sizes always read from the parsed document.
get_image_dimensions_FromOme(h, self) ==
    <<h[self.ome].size_x, h[self.ome].size_y, h[self.ome].size_c>>

get_image_dimensions(h, self) ==
    LET pixels == h[self.ome] IN
    IF self.cropped_dimensions # None
    THEN <<self.cropped_dimensions[1], self.cropped_dimensions[2], pixels.size_c>>
    ELSE <<pixels.size_x, pixels.size_y, pixels.size_c>>

get_number_of_channels(h, self) == h[self.ome].size_c

get_dtype_from_metadata(h, self) ==
    LET pixel_type == h[self.ome].type IN
    CASE pixel_type = "uint8"  -> "uint8"
      [] pixel_type = "uint16" -> "uint16"
      [] pixel_type = "uint32" -> "uint32"
      [] pixel_type = "int8"   -> "int8"
      [] pixel_type = "int16"  -> "int16"
      [] pixel_type = "int32"  -> "int32"
      [] pixel_type = "float"  -> "float32"
      [] pixel_type = "double" -> "float64"
      [] OTHER                 -> "uint16"

get_ome_metadata(self) == self.ome_metadata

NoFrame == [self |-> 0, output_path |-> "", c |-> 0, num_channels |-> 0,
            dtype |-> "", crop_info |-> None, cropped_channel_arrays |-> <<>>]

NoFile == [exists |-> FALSE, pages |-> <<>>]

Call(op, self, arg, val) == [op |-> op, self |-> self, arg |-> arg, val |-> val]

(***************************************************************************)
(* Initial state: one descriptor constructed from a file path.             *)
(***************************************************************************)
Init ==
    \E path \in SourcePaths :
        LET n == InitFromPath(<<>>, path) IN
        /\ heap = n.heap
        /\ slicers = <<n.slicer>>
        /\ out_files = [p \in OutputPaths |-> NoFile]
        /\ pc = "idle"
        /\ frame = NoFrame
        /\ ret = Call("load", 1, <<path>>, "ok")
        /\ io = n.io

(***************************************************************************)
(* crop(x, y, width, height) on descriptor i.                              *)
(***************************************************************************)
Crop ==
    \E i \in 1 .. Len(slicers), x \in Xs, y \in Ys, width \in Widths, height \in Heights :
        LET n == InitFromSlicer(heap, slicers[i], x, y, width, height) IN
        /\ pc = "idle"
        /\ Len(slicers) < MaxSlicers
        /\ heap' = n.heap
        /\ slicers' = Append(slicers, n.slicer)
        /\ ret' = Call("crop", i, <<x, y, width, height>>, "ok")
        /\ io' = n.io
        /\ UNCHANGED <<out_files, pc, frame>>

(***************************************************************************)
(* get_image_dimensions() on descriptor i.                                 *)
(***************************************************************************)
GetImageDimensions ==
    \E i \in 1 .. Len(slicers) :
        /\ pc = "idle"
        /\ ret' = Call("get_image_dimensions", i, <<>>, get_image_dimensions(heap, slicers[i]))
        /\ io' = <<>>
        /\ UNCHANGED <<heap, slicers, out_files, pc, frame>>

(***************************************************************************)
(* load_pyvips_image(page) on descriptor i.                                *)
(***************************************************************************)
load_pyvips_image(self, page) ==
    IF self.pyvips_image = None
    THEN [self EXCEPT !.pyvips_image = new_from_file(self.ome_tiff_path, page)]
    ELSE self

LoadPyvipsImage ==
    \E i \in 1 .. Len(slicers), page \in 0 .. MaxPage :
        LET self == load_pyvips_image(slicers[i], page) IN
        /\ pc = "idle"
        /\ slicers' = [slicers EXCEPT ![i] = self]
        /\ ret' = Call("load_pyvips_image", i, <<page>>, self.pyvips_image)
        /\ io' = IF slicers[i].pyvips_image = None
                 THEN <<[ev |-> "open_image", page |-> page]>>
                 ELSE <<>>
        /\ UNCHANGED <<heap, out_files, pc, frame>>

(***************************************************************************)
(* save(output_path) on descriptor i, one step per statement group.        *)
(***************************************************************************)
\* Variant: no precondition, a descriptor without crop region saves the whole image.
SaveBegin_NoCheck ==
    \E i \in 1 .. Len(slicers), output_path \in OutputPaths :
        /\ pc = "idle"
        /\ io' = <<>>
        /\ pc' = "extract"
        /\ frame' = [self |-> i,
                     output_path |-> output_path,
                     c |-> 0,
                     num_channels |-> get_number_of_channels(heap, slicers[i]),
                     dtype |-> get_dtype_from_metadata(heap, slicers[i]),
                     crop_info |-> IF slicers[i].crop_info = None
                                   THEN <<0, 0, heap[slicers[i].ome].size_x,
                                          heap[slicers[i].ome].size_y>>
                                   ELSE slicers[i].crop_info,
                     cropped_channel_arrays |-> <<>>]
        /\ ret' = Call("save", i, <<output_path>>, "running")
        /\ UNCHANGED <<heap, slicers, out_files>>

\* Variant: the writer is opened before the extraction loop.
SaveBegin_OpenFirst ==
    \E i \in 1 .. Len(slicers), output_path \in OutputPaths :
        /\ pc = "idle"
        /\ IF slicers[i].crop_info = None
           THEN /\ ret' = Call("save", i, <<output_path>>, "ValueError")
                /\ io' = <<>>
                /\ UNCHANGED <<pc, frame, out_files>>
           ELSE /\ pc' = "extract"
                /\ frame' = [self |-> i,
                             output_path |-> output_path,
                             c |-> 0,
                             num_channels |-> get_number_of_channels(heap, slicers[i]),
                             dtype |-> get_dtype_from_metadata(heap, slicers[i]),
                             crop_info |-> slicers[i].crop_info,
                             cropped_channel_arrays |-> <<>>]
                /\ ret' = Call("save", i, <<output_path>>, "running")
                /\ io' = <<[ev |-> "create", page |-> 0]>>
                /\ out_files' = [out_files EXCEPT ![output_path] =
                                    [exists |-> TRUE, pages |-> <<>>]]
        /\ UNCHANGED <<heap, slicers>>

\* Lines 108-116: the precondition and the locals.
SaveBegin ==
    \E i \in 1 .. Len(slicers), output_path \in OutputPaths :
        /\ pc = "idle"
        /\ io' = <<>>
        /\ IF slicers[i].crop_info = None
           THEN /\ ret' = Call("save", i, <<output_path>>, "ValueError")
                /\ UNCHANGED <<pc, frame>>
           ELSE /\ pc' = "extract"
                /\ frame' = [self |-> i,
                             output_path |-> output_path,
                             c |-> 0,
                             num_channels |-> get_number_of_channels(heap, slicers[i]),
                             dtype |-> get_dtype_from_metadata(heap, slicers[i]),
                             crop_info |-> slicers[i].crop_info,
                             cropped_channel_arrays |-> <<>>]
                /\ ret' = Call("save", i, <<output_path>>, "running")
        /\ UNCHANGED <<heap, slicers, out_files>>

\* Lines 119-132: one iteration of the extraction loop.
SaveExtract ==
    /\ pc = "extract"
    /\ frame.c < frame.num_channels
    /\ LET self == slicers[frame.self]
           channel_image == new_from_file(self.ome_tiff_path, frame.c)
           cropped == IF channel_image = None THEN None
                      ELSE ImageCrop(channel_image, frame.crop_info[1], frame.crop_info[2],
                                     frame.crop_info[3], frame.crop_info[4])
       IN  /\ io' = Append(io, [ev |-> "decode", page |-> frame.c])
           /\ IF cropped = None
              THEN /\ pc' = "idle"
                   /\ frame' = NoFrame
                   /\ ret' = [ret EXCEPT !.val = "pyvips.Error"]
              ELSE /\ frame' = [frame EXCEPT
                                  !.c = @ + 1,
                                  !.cropped_channel_arrays =
                                      Append(@, [dtype |-> frame.dtype,
                                                 height |-> cropped[1].height,
                                                 width |-> cropped[1].width,
                                                 data |-> cropped[1].data])]
                   /\ UNCHANGED <<pc, ret>>
    /\ UNCHANGED <<heap, slicers, out_files>>

\* Line 135: the extraction loop is over, TiffWriter creates the output file.
SaveOpenWriter ==
    /\ pc = "extract"
    /\ frame.c = frame.num_channels
    /\ out_files' = [out_files EXCEPT ![frame.output_path] = [exists |-> TRUE, pages |-> <<>>]]
    /\ io' = Append(io, [ev |-> "create", page |-> 0])
    /\ pc' = "write"
    /\ frame' = [frame EXCEPT !.c = 0]
    /\ UNCHANGED <<heap, slicers, ret>>

\* Lines 136-146: one iteration of the write loop.
SaveWrite ==
    /\ pc = "write"
    /\ frame.c < frame.num_channels
    /\ LET array == frame.cropped_channel_arrays[frame.c + 1]
           page == [height |-> array.height, width |-> array.width, data |-> array.data,
                    description |-> IF frame.c = 0
                                    THEN <<get_ome_metadata(slicers[frame.self])>>
                                    ELSE None]
       IN  out_files' = [out_files EXCEPT ![frame.output_path].pages = Append(@, page)]
    /\ io' = Append(io, [ev |-> "write", page |-> frame.c])
    /\ frame' = [frame EXCEPT !.c = @ + 1]
    /\ UNCHANGED <<heap, slicers, pc, ret>>

\* The write loop is over, the writer is closed and save() returns.
SaveReturn ==
    /\ pc = "write"
    /\ frame.c = frame.num_channels
    /\ pc' = "idle"
    /\ frame' = NoFrame
    /\ ret' = [ret EXCEPT !.val = "ok"]
    /\ UNCHANGED <<heap, slicers, out_files, io>>

Next ==
    \/ Crop
    \/ GetImageDimensions
    \/ SaveBegin
    \/ SaveExtract
    \/ SaveOpenWriter
    \/ SaveWrite
    \/ SaveReturn

Spec == Init /\ [][Next]_vars

NextImage ==
    \/ Crop
    \/ LoadPyvipsImage

SpecImage == Init /\ [][NextImage]_vars

(***************************************************************************)
(* Properties.                                                             *)
(***************************************************************************)
\* What the file at the descriptor's source path declares and holds.
SourceXml(self) == FileXml(self.ome_tiff_path)

IsCropped(self) == self.crop_info # None

\* The crop region lies inside the source image and every declared channel has a page.
Extractable(self) ==
    /\ IsCropped(self)
    /\ self.crop_info[1] >= 0 /\ self.crop_info[2] >= 0
    /\ self.crop_info[3] > 0 /\ self.crop_info[4] > 0
    /\ self.crop_info[1] + self.crop_info[3] <= SourceXml(self).SizeX
    /\ self.crop_info[2] + self.crop_info[4] <= SourceXml(self).SizeY
    /\ SourceXml(self).SizeC <= FilePageCount(self.ome_tiff_path)

SaveReturned == pc = "idle" /\ ret.op = "save"

\* The fields of a descriptor that a crop of it must leave alone.
Observed(h, self) ==
    [ome_tiff_path |-> self.ome_tiff_path,
     document      |-> h[self.ome],
     ome_metadata  |-> self.ome_metadata,
     crop_info     |-> self.crop_info,
     dimensions    |-> get_image_dimensions(h, self)]

C2_CropNeverMutatesParent ==
    [][/\ Len(slicers') >= Len(slicers)
       /\ \A i \in 1 .. Len(slicers) :
              Observed(heap', slicers'[i]) = Observed(heap, slicers[i])
       /\ \A i, j \in 1 .. Len(slicers') :
              i # j => slicers'[i].ome # slicers'[j].ome]_vars

C2_Witness ==
    /\ Len(slicers) = 3
    /\ ret.op = "crop"
    /\ ret.self = 2
    /\ slicers[2].cropped_dimensions # slicers[3].cropped_dimensions
    /\ get_image_dimensions(heap, slicers[2])[1] # get_image_dimensions(heap, slicers[1])[1]

\* C3: when save() has returned on a descriptor whose crop region lies inside
\* the source (and whose declared channels all have a page) it has succeeded,
\* and after a successful save() the XML on the first page of the output
\* declares the width and height of the descriptor's crop region and the
\* channel count of the source, and the output has that many pages.
C3_SavedMetadataDeclaresCrop ==
    SaveReturned =>
        LET self == slicers[ret.self]
            file == out_files[ret.arg[1]]
        IN  /\ Extractable(self) => ret.val = "ok"
            /\ ret.val = "ok" =>
                 /\ file.exists
                 /\ Len(file.pages) = SourceXml(self).SizeC
                 /\ file.pages[1].description # None
                 /\ file.pages[1].description[1].SizeX = self.crop_info[3]
                 /\ file.pages[1].description[1].SizeY = self.crop_info[4]
                 /\ file.pages[1].description[1].SizeC = SourceXml(self).SizeC

C3_Witness ==
    /\ SaveReturned
    /\ ret.val = "ok"
    /\ ret.self = 3
    /\ IsCropped(slicers[2])
    /\ slicers[3].crop_info[3] # slicers[3].crop_info[4]
    /\ slicers[3].crop_info[3] # SourceXml(slicers[3]).SizeX
    /\ Len(out_files[ret.arg[1]].pages) = 2

C5_DerivedDocumentResized ==
    \A i \in 1 .. Len(slicers) :
        IsCropped(slicers[i]) =>
            /\ heap[slicers[i].ome].size_x = slicers[i].crop_info[3]
            /\ heap[slicers[i].ome].size_y = slicers[i].crop_info[4]

\* C5 amended: after D = P.crop(x, y, width, height) the metadata XML held by
\* D declares (width, height) with the channel count and pixel type of P,
\* while the document held by D is an unmodified copy of P's document.
C5_DerivedXmlResized ==
    ret.op = "crop" =>
        LET P == slicers[ret.self]
            D == slicers[Len(slicers)]
        IN  /\ from_xml(D.ome_metadata).size_x = ret.arg[3]
            /\ from_xml(D.ome_metadata).size_y = ret.arg[4]
            /\ from_xml(D.ome_metadata).size_c = heap[P.ome].size_c
            /\ from_xml(D.ome_metadata).type = heap[P.ome].type
            /\ heap[D.ome] = heap[P.ome]
            /\ D.ome # P.ome

C5_Witness ==
    /\ ret.op = "crop"
    /\ ret.self = 2
    /\ Len(slicers) = 3
    /\ ret.arg[3] # heap[slicers[3].ome].size_x
    /\ ret.arg[4] # heap[slicers[3].ome].size_y
    /\ slicers[3].ome_metadata # slicers[2].ome_metadata

\* The file operations of a save() that has decoded k channels and nothing else.
DecodeEvents(k) == [c \in 1 .. k |-> [ev |-> "decode", page |-> c - 1]]

\* C6: inside save() the channels are decoded in index order; the output
\* file is created or written only once all N channels are buffered; and a
\* save() that raised in the extraction has performed decodes only.
C6_ExtractionBeforeWrite ==
    [][/\ pc' = "extract" =>
              /\ io' = DecodeEvents(frame'.c)
              /\ Len(frame'.cropped_channel_arrays) = frame'.c
       /\ out_files' # out_files =>
              /\ pc # "idle"
              /\ Len(frame.cropped_channel_arrays)
                     = get_number_of_channels(heap, slicers[frame.self])
              /\ SubSeq(io', 1, Len(frame.cropped_channel_arrays))
                     = DecodeEvents(get_number_of_channels(heap, slicers[frame.self]))
       /\ (pc' = "idle" /\ ret'.op = "save" /\ ret'.val = "pyvips.Error") =>
              /\ out_files' = out_files
              /\ \A k \in 1 .. Len(io') : io'[k].ev = "decode"]_vars

C6_Witness ==
    /\ SaveReturned
    /\ ret.val = "pyvips.Error"
    /\ Len(io) = 2
    /\ ~out_files[ret.arg[1]].exists

\* C7: the crop region a descriptor records is the (x, y, width, height) its
\* crop() call was given, also when the parent is itself cropped, and
\* after a successful save() the output holds one page per channel of
\* the source, page c being the crop region's rectangle of source page c
\* in coordinates of the source file; the descriptor's metadata XML is the
\* description of the first page and no other page has a description.
C7_PagesHoldSourceRectangle ==
    /\ ret.op = "crop" => slicers[Len(slicers)].crop_info = ret.arg
    /\ (SaveReturned /\ ret.val = "ok") =>
          LET self == slicers[ret.self]
              file == out_files[ret.arg[1]]
              x == self.crop_info[1]
              y == self.crop_info[2]
              width == self.crop_info[3]
              height == self.crop_info[4]
          IN  /\ Len(file.pages) = SourceXml(self).SizeC
              /\ \A c \in 1 .. Len(file.pages) :
                    /\ file.pages[c].width = width
                    /\ file.pages[c].height = height
                    /\ DOMAIN file.pages[c].data = (0 .. width - 1) \X (0 .. height - 1)
                    /\ \A i \in 0 .. width - 1, j \in 0 .. height - 1 :
                          file.pages[c].data[<<i, j>>]
                              = FileSample(self.ome_tiff_path, c - 1, x + i, y + j)
                    /\ file.pages[c].description
                          = IF c = 1 THEN <<get_ome_metadata(self)>> ELSE None

C7_Witness ==
    /\ SaveReturned
    /\ ret.val = "ok"
    /\ ret.self = 3
    /\ slicers[2].crop_info[1] = 1
    /\ slicers[2].crop_info[2] = 1
    /\ slicers[3].crop_info = <<0, 0, 1, 2>>
    /\ Len(out_files[ret.arg[1]].pages) = 2
    /\ out_files[ret.arg[1]].pages[2].description = None

\* What the XML returned by get_ome_metadata() declares.
DeclaredDimensions(self) ==
    <<from_xml(get_ome_metadata(self)).size_x,
      from_xml(get_ome_metadata(self)).size_y,
      from_xml(get_ome_metadata(self)).size_c>>

\* C8: get_image_dimensions() returns the sizes and channel count declared by
\* the descriptor's metadata XML: those of the file for the loaded
\* descriptor, the crop's width and height with the file's channel count for
\* a derived one; the call changes nothing but its result.
C8_DimensionsMatchMetadata ==
    [][ret'.op = "get_image_dimensions" =>
          LET self == slicers'[ret'.self] IN
          /\ ret'.val = DeclaredDimensions(self)
          /\ ret'.val = IF IsCropped(self)
                        THEN <<self.crop_info[3], self.crop_info[4], SourceXml(self).SizeC>>
                        ELSE <<SourceXml(self).SizeX, SourceXml(self).SizeY,
                               SourceXml(self).SizeC>>
          /\ UNCHANGED <<heap, slicers, out_files, pc, frame>>]_vars

C8_Witness ==
    /\ ret.op = "get_image_dimensions"
    /\ ret.self = 3
    /\ IsCropped(slicers[2])
    /\ ret.val[1] # SourceXml(slicers[3]).SizeX
    /\ ret.val[2] # SourceXml(slicers[3]).SizeY

C10_ReturnsRequestedPage ==
    ret.op = "load_pyvips_image" =>
        ret.val = new_from_file(slicers[ret.self].ome_tiff_path, ret.arg[1])

====
